---- MODULE Spec2Model ----
(***************************************************************************)
(* A model of the two event mediators of angular-mediator:                 *)
(*   angularMediator (src/unnamed/part_000), the matcher-per-entry design, *)
(*   lsMediator (src/scripts/mediator.js), the hook-per-event-name design. *)
(* Strings are sequences of one-character strings, so that the wildcard    *)
(* compiler and the regular expression matcher work on characters as the   *)
(* JavaScript code does.                                                   *)
(***************************************************************************)
EXTENDS Integers, Sequences, FiniteSets, TLC

(***************************************************************************)
(* Bounds of the model.                                                    *)
(***************************************************************************)
\* the listeners array holds at most this many compiled patterns
MaxListeners == 2
\* at most this many actors are attached in total
MaxActs == 2
\* the event names matched one by one have at most this many characters
MaxNameLen == 3

(***************************************************************************)
(* Strings and the string operations of regexify.                          *)
(***************************************************************************)
\* the characters [^:/.?_&;] excludes, src/unnamed/part_000:197
Separators == {":", "/", ".", "?", "_", "&", ";"}

\* the text of the character class regexify substitutes for one '*'
ClassText == <<"[", "^", ":", "/", ".", "?", "_", "&", ";", "]", "*">>

\* does the literal text pat occur in s at position i
OccursAt(s, pat, i) ==
    /\ i >= 1
    /\ i + Len(pat) - 1 <= Len(s)
    /\ \A j \in 1..Len(pat) : s[i + j - 1] = pat[j]

\* watchPattern.match(/\*{3,}/): three or more consecutive '*'
HasTripleStar(s) == \E i \in 1..Len(s) : OccursAt(s, <<"*", "*", "*">>, i)

\* String.prototype.replace with a global literal pattern: every
\* non-overlapping occurrence, scanning from the left
RECURSIVE ReplaceAllFrom(_, _, _, _)
ReplaceAllFrom(s, pat, rep, i) ==
    IF i > Len(s) THEN <<>>
    ELSE IF OccursAt(s, pat, i)
         THEN rep \o ReplaceAllFrom(s, pat, rep, i + Len(pat))
         ELSE <<s[i]>> \o ReplaceAllFrom(s, pat, rep, i + 1)

ReplaceAll(s, pat, rep) == ReplaceAllFrom(s, pat, rep, 1)

\* String.prototype.replace with a non-global pattern: the first occurrence
ReplaceFirst(s, pat, rep) ==
    IF \E i \in 1..Len(s) : OccursAt(s, pat, i)
    THEN LET i == CHOOSE k \in 1..Len(s) :
                      /\ OccursAt(s, pat, k)
                      /\ \A m \in 1..(k - 1) : ~OccursAt(s, pat, m)
         IN SubSeq(s, 1, i - 1) \o rep \o SubSeq(s, i + Len(pat), Len(s))
    ELSE s

\* the three chained replacements of regexify, src/unnamed/part_000:195-198
WildcardSource(watchPattern) ==
    ReplaceFirst(
        ReplaceAll(
            ReplaceAll(watchPattern, <<"*", "*">>, <<".", "*">>),
            <<"*">>, ClassText),
        <<".">>, <<".", "*">>)

\* regexify returns new RegExp('^' + matcher); a RegExp is modelled by its
\* source text and its flags
regexify(watchPattern) ==
    [src |-> <<"^">> \o WildcardSource(watchPattern), flags |-> <<>>]

\* a variant of the check of regexify that accepts every string
neverThrows(watchPattern) == FALSE

\* regexify throws for a pattern with three or more consecutive '*'
regexifyThrows(watchPattern) == HasTripleStar(watchPattern)

(***************************************************************************)
(* Regular expressions: the part of the JavaScript syntax that regexify    *)
(* can produce and that the patterns of the model use.  A source text is   *)
(* parsed into atoms; an atom is an assertion (^, $) or a one-character    *)
(* matcher (a literal, '.', a character class) with a quantifier.          *)
(***************************************************************************)
\* the position of the first "]" at or after i, or 0
RECURSIVE ClassEnd(_, _)
ClassEnd(src, i) ==
    IF i > Len(src) THEN 0
    ELSE IF src[i] = "]" THEN i ELSE ClassEnd(src, i + 1)

\* the quantifier written at position p: *, ?, each optionally followed by
\* the lazy mark '?', which does not change whether the expression matches
QuantAt(src, p) ==
    IF p <= Len(src) /\ src[p] \in {"*", "?"}
    THEN [q |-> IF src[p] = "*" THEN "star" ELSE "opt",
          next |-> IF p + 1 <= Len(src) /\ src[p + 1] = "?" THEN p + 2 ELSE p + 1]
    ELSE [q |-> "one", next |-> p]

RECURSIVE ParseFrom(_, _)
ParseFrom(src, i) ==
    IF i > Len(src) THEN <<>>
    ELSE LET c == src[i] IN
      IF c \in {"^", "$"}
      THEN IF i + 1 <= Len(src) /\ src[i + 1] \in {"*", "?"}
           THEN <<[kind |-> "bad", set |-> {}, q |-> "one"]>>
           ELSE <<[kind |-> IF c = "^" THEN "bol" ELSE "eol", set |-> {}, q |-> "one"]>>
                \o ParseFrom(src, i + 1)
      ELSE IF c \in {"*", "?"}
      THEN <<[kind |-> "bad", set |-> {}, q |-> "one"]>>
      ELSE IF c = "["
      THEN LET e == ClassEnd(src, i + 1) IN
           IF e = 0 THEN <<[kind |-> "bad", set |-> {}, q |-> "one"]>>
           ELSE LET neg == i + 1 < e /\ src[i + 1] = "^"
                    from == IF neg THEN i + 2 ELSE i + 1
                    qa == QuantAt(src, e + 1)
                IN <<[kind |-> IF neg THEN "nclass" ELSE "class",
                      set |-> {src[k] : k \in from..(e - 1)},
                      q |-> qa.q]>> \o ParseFrom(src, qa.next)
      ELSE IF c = "\\"
      THEN IF i + 1 > Len(src)
           THEN <<[kind |-> "bad", set |-> {}, q |-> "one"]>>
           ELSE LET qa == QuantAt(src, i + 2)
                IN <<[kind |-> "class", set |-> {src[i + 1]}, q |-> qa.q]>>
                   \o ParseFrom(src, qa.next)
      ELSE LET qa == QuantAt(src, i + 1)
           IN <<[kind |-> IF c = "." THEN "any" ELSE "class",
                 set |-> IF c = "." THEN {} ELSE {c},
                 q |-> qa.q]>> \o ParseFrom(src, qa.next)

Parse(src) == ParseFrom(src, 1)

\* new RegExp(src) throws a SyntaxError for a source it cannot parse
SyntaxError(src) == \E i \in 1..Len(Parse(src)) : Parse(src)[i].kind = "bad"

\* does the one-character matcher of atom a accept character ch
Accepts(a, ch) ==
    CASE a.kind = "any" -> TRUE
      [] a.kind = "class" -> ch \in a.set
      [] a.kind = "nclass" -> ch \notin a.set
      [] OTHER -> FALSE

\* can atoms i.. match s from position pos on (backtracking over the
\* quantifiers); the match need not reach the end of s
RECURSIVE MatchFrom(_, _, _, _)
MatchFrom(atoms, i, s, pos) ==
    IF i > Len(atoms) THEN TRUE
    ELSE LET a == atoms[i]
             here == pos <= Len(s) /\ Accepts(a, s[pos])
         IN CASE a.kind = "bol" -> pos = 1 /\ MatchFrom(atoms, i + 1, s, pos)
              [] a.kind = "eol" -> pos = Len(s) + 1 /\ MatchFrom(atoms, i + 1, s, pos)
              [] a.kind = "bad" -> FALSE
              [] OTHER ->
                   CASE a.q = "one" -> here /\ MatchFrom(atoms, i + 1, s, pos + 1)
                     [] a.q = "opt" -> \/ MatchFrom(atoms, i + 1, s, pos)
                                       \/ here /\ MatchFrom(atoms, i + 1, s, pos + 1)
                     [] OTHER -> \/ MatchFrom(atoms, i + 1, s, pos)
                                 \/ here /\ MatchFrom(atoms, i, s, pos + 1)

\* name.match(regex) is not null: the expression matches somewhere in name
RegexMatch(re, name) ==
    LET atoms == Parse(re.src)
    IN \E start \in 1..(Len(name) + 1) : MatchFrom(atoms, 1, name, start)

\* RegExp.prototype.toString: "/" + source + "/" + flags
RegexToString(re) == <<"/">> \o re.src \o <<"/">> \o re.flags

(***************************************************************************)
(* JavaScript values.  A value carries its constructor, as the code        *)
(* branches on eventName.constructor.                                      *)
(***************************************************************************)
Str(chars) == [ctor |-> "String", s |-> chars]
Rx(re) == [ctor |-> "RegExp", re |-> re]
Arr(items) == [ctor |-> "Array", items |-> items]
Undefined == [ctor |-> "undefined"]

\* String(v), the property key of actors[v]
KeyOf(v) ==
    CASE v.ctor = "RegExp" -> RegexToString(v.re)
      [] v.ctor = "String" -> v.s
      [] OTHER -> <<"undefined">>

(***************************************************************************)
(* The inputs of the model: pattern specifications, event names, payloads  *)
(* and actor callbacks.                                                    *)
(***************************************************************************)
P1 == Str(<<"a", ":", "*">>)
P2 == Str(<<"*", "*", ":", "b">>)
PBad == Str(<<"*", "*", "*", ":", "b">>)
PatternSpecs == {P1, P2, PBad}

\* a wildcard string and a regular expression that is what the string
\* compiles to
PA == Str(<<"a">>)
RA == Rx([src |-> <<"^", "a">>, flags |-> <<>>])
RxPatternSpecs == {PA, RA}

E1 == <<"a", ":", "b">>
E2 == <<"c", ":", "b">>
Names == {E1, E2}

\* publish(name) with no payload is the argument list <<name>>
PayloadLists == { <<>>,
                  <<Str(<<"P">>)>>,
                  <<Arr(<<Str(<<"x">>), Arr(<<Str(<<"y">>)>>)>>)>> }

\* the callbacks the application attaches: "f" returns, "t" throws,
\* "u" calls unlisten(UnlistenTarget), "n" publishes NestedName with
\* NestedPayload (a re-entrant publish)
ActorFns == {"f", "t", "u", "n"}
UnlistenTarget == P2
NestedName == E2
NestedPayload == <<Str(<<"N">>)>>

\* lsMediator: the patterns listened, an exact event name among them; the
\* payloads ($emit(name, args) hands on one payload); the callbacks: "f"
\* returns, "n" calls $rootScope.$emit(NestedName, LsNestedPayload)
LsPatternSpecs == {Str(E1), P1, P2}
LsPayloads == {Str(<<"P">>), Arr(<<Str(<<"x">>)>>)}
LsActorFns == {"f", "n"}
LsNestedPayload == Str(<<"N">>)

\* lsMediator given patterns and event names with '*' and '/' in them: a
\* pattern with three stars, a single-star pattern, a regular expression
\* with a flag; event names spelled like those patterns, and plain ones
RG == Rx([src |-> <<"a">>, flags |-> <<"g">>])
LsWildPatternSpecs == {PBad, P1, RG}
LsWildNames == {PBad.s, P1.s, KeyOf(RG), E1}

\* lsMediator called through the scopes of the host: the method, the scope
\* the call is made on, and the arguments after the event name
HostMethods == {"$emit", "$broadcast"}
HostScopes == {"$rootScope", "$nestedScope"}
HostArgLists == {<<>>, <<Str(<<"P">>)>>, <<Str(<<"P">>), Str(<<"Q">>)>>}

\* the matching of one pattern against one event name: the characters of
\* the names (a letter, two separators, and the two characters the wildcard
\* syntax and the regular expression syntax give a meaning to), the names,
\* and the pattern specifications
ProbeAlphabet == {"a", ":", ".", "*", "?"}

ProbeNames == UNION {[1..n -> ProbeAlphabet] : n \in 0..MaxNameLen}

StarPatterns ==
    {Str(<<"*">>), Str(<<"*", ":", "a">>), Str(<<"a", ":", "*">>),
     Str(<<"*", ":", "*">>)}

GlobstarPatterns ==
    {Str(<<"*", "*">>), Str(<<"*", "*", ":", "a">>),
     Str(<<"*", "*", ":", "*", "*">>),
     Str(<<"*", "*", ":", "a", ":", "*", "*">>)}

LiteralPatterns ==
    {Str(<<"a">>), Str(<<"a", ":">>), Str(<<":", "a">>), Str(<<"a", ".", "a">>),
     Str(<<".">>), Str(<<"a", "?">>), Str(<<"a", "?", ":">>),
     Str(<<"?", "a">>)}

RegExpPatterns ==
    {Rx([src |-> <<":", "a", "$">>, flags |-> <<>>]),
     Rx([src |-> <<"a">>, flags |-> <<>>]),
     Rx([src |-> <<"^", "a">>, flags |-> <<>>])}

ProbePatterns ==
    StarPatterns \cup GlobstarPatterns \cup LiteralPatterns \cup RegExpPatterns

(***************************************************************************)
(* angularMediator, src/unnamed/part_000.                                  *)
(***************************************************************************)
VARIABLES
    listeners,    \* var listeners: the array of active RegExp objects
    actors,       \* var actors: key (String(regexp)) -> array of callbacks
    _eventName,   \* var _eventName: the value the next act attaches to
    deepFlatten,  \* the library loaded as _: does _.flatten flatten deeply
    stack,        \* the callRegexes activations in progress, innermost last
    phase,        \* the caller: idle | dispatching | returned | threw
    log,          \* history: the actor invocations of the current publish
    emitted,      \* history: the native $emit/$broadcast calls of the publish
    lastCall,     \* history: the last call of the mediator and its outcome
    pre,          \* history: the state when the current publish started
    hist          \* history: what the calls so far have asked for

\* lsMediator, src/scripts/mediator.js
VARIABLES
    lsListeners,  \* var listeners: event name -> de-register function
    lsActors,     \* var actors: event name or pattern -> array of callbacks
    lsHooks,      \* $rootScope.$$listeners: event name -> how many times
                  \* eventCb is registered for it
    ls_eventName, \* var _eventName
    ls_event,     \* var _event
    ls_payload,   \* var _payload
    lsStack,      \* the eventCb/callActors activations in progress
    lsPhase,      \* the caller: idle | dispatching | returned | threw
    lsLog,        \* history: the actor invocations of the current publish
    lsHist        \* history: what the calls so far have asked for

\* one pattern matched against one name by a mediator of its own
VARIABLES
    probe         \* the pattern given to listen, the name published, how
                  \* far the two calls have got, and what they produced

amVars == <<listeners, actors, _eventName, deepFlatten, stack, phase, log, emitted,
            lastCall, pre, hist>>

lsVars == <<lsListeners, lsActors, lsHooks, ls_eventName, ls_event,
            ls_payload, lsStack, lsPhase, lsLog, lsHist>>

vars == <<amVars, lsVars, probe>>

registry == <<listeners, actors, _eventName>>

\* actors[key], an absent property reading as no actors
ActorsIn(acts, key) == IF key \in DOMAIN acts THEN acts[key] ELSE <<>>

TotalActs(acts) ==
    LET RECURSIVE Sum(_)
        Sum(K) == IF K = {} THEN 0
                  ELSE LET k == CHOOSE x \in K : TRUE
                       IN Len(acts[k]) + Sum(K \ {k})
    IN Sum(DOMAIN acts)

\* if (_.isString(eventName)) eventName = regexify(eventName): does it throw
toRegExpThrows(eventName) ==
    /\ eventName.ctor = "String"
    /\ \/ regexifyThrows(eventName.s)
       \/ SyntaxError(regexify(eventName.s).src)

\* a variant of the conversion that compiles the source of a RegExp as if
\* it were a wildcard string
toRegExpAnchored(eventName) ==
    IF eventName.ctor = "String" THEN Rx(regexify(eventName.s))
    ELSE Rx(regexify(eventName.re.src))

\* ... and eventName after it
toRegExp(eventName) ==
    IF eventName.ctor = "String" THEN Rx(regexify(eventName.s)) ELSE eventName

\* the conversion, tabulated for the pattern specifications of the model
CompileTable ==
    [p \in PatternSpecs \cup RxPatternSpecs |->
        IF toRegExpThrows(p) THEN [throws |-> TRUE, value |-> Undefined]
        ELSE [throws |-> FALSE, value |-> toRegExp(p)]]

compileThrows(eventName) == CompileTable[eventName].throws

compiled(eventName) == CompileTable[eventName].value

\* a variant of addListener that puts the expression in front
addListenerFront(ls, eventName) ==
    IF compiled(eventName).ctor = "RegExp"
    THEN <<compiled(eventName).re>> \o ls
    ELSE ls

\* addListener: the listeners array after the call
addListener(ls, eventName) ==
    IF compiled(eventName).ctor = "RegExp"
    THEN Append(ls, compiled(eventName).re)
    ELSE ls

\* _.reject(listeners, ...): the listeners whose toString differs from key
RECURSIVE RejectKey(_, _)
RejectKey(ls, key) ==
    IF ls = <<>> THEN <<>>
    ELSE IF RegexToString(Head(ls)) = key
         THEN RejectKey(Tail(ls), key)
         ELSE <<Head(ls)>> \o RejectKey(Tail(ls), key)

\* a variant of removeListener that drops the first equal expression only
RECURSIVE RejectFirst(_, _)
RejectFirst(ls, key) ==
    IF ls = <<>> THEN <<>>
    ELSE IF RegexToString(Head(ls)) = key
         THEN Tail(ls)
         ELSE <<Head(ls)>> \o RejectFirst(Tail(ls), key)

removeFirstListener(ls, eventName) ==
    RejectFirst(ls, KeyOf(compiled(eventName)))

\* removeListener: the listeners array after the call
removeListener(ls, eventName) == RejectKey(ls, KeyOf(compiled(eventName)))

\* a variant of addActor that starts the list of eventName anew
addActorReset(acts, eventName, fn) ==
    LET key == KeyOf(eventName)
    IN [k \in DOMAIN acts \cup {key} |->
          IF k = key THEN <<fn>> ELSE acts[k]]

\* addActor: actors after pushing fn on actors[eventName]
addActor(acts, eventName, fn) ==
    LET key == KeyOf(eventName)
    IN [k \in DOMAIN acts \cup {key} |->
          IF k = key THEN Append(ActorsIn(acts, key), fn) ELSE acts[k]]

\* _.flatten(array) of underscore and of lodash before 3.0: every nested
\* array (and arguments object) is flattened into the result
RECURSIVE FlattenDeep(_)
FlattenDeep(items) ==
    IF items = <<>> THEN <<>>
    ELSE LET h == Head(items)
         IN (IF h.ctor = "Array" THEN FlattenDeep(h.items) ELSE <<h>>)
            \o FlattenDeep(Tail(items))

\* _.flatten(array) of lodash from 3.0 on: one level is flattened
RECURSIVE FlattenShallow(_)
FlattenShallow(items) ==
    IF items = <<>> THEN <<>>
    ELSE LET h == Head(items)
         IN (IF h.ctor = "Array" THEN h.items ELSE <<h>>)
            \o FlattenShallow(Tail(items))

\* var args = _.flatten(arguments) in callRegexes(arguments): the arguments
\* of callRegexes are the one arguments object of the caller
flattenArguments(deep, callerArgs) ==
    IF deep THEN FlattenDeep(<<Arr(callerArgs)>>)
    ELSE FlattenShallow(<<Arr(callerArgs)>>)

\* the RegExp objects the pattern specifications of the model compile to
AllRegexes ==
    {compiled(p).re :
        p \in {q \in PatternSpecs \cup RxPatternSpecs : ~compileThrows(q)}}

\* name.match(listener), tabulated for the expressions and names of the model
MatchTable ==
    [re \in AllRegexes, name \in Names |-> RegexMatch(re, name)]

Matches(re, name) == MatchTable[re, name]

(***************************************************************************)
(* History: what the application asked for, kept apart from the arrays of  *)
(* the code, so that the claims compare the one with the other.            *)
(***************************************************************************)
Fn(f) == [ctor |-> "Function", fn |-> f]

\* a call of the public interface by the application, and whether it threw
Call(op, arg, threw) == [op |-> op, arg |-> arg, threw |-> threw]

NoCall == Call("none", Undefined, FALSE)

\* no chain listen(p).act(f1)...act(fk) is being written
NoChain == [p |-> Undefined, fns |-> <<>>, base |-> <<>>]

NoHist == [unlistened |-> {}, byActor |-> {}, restored |-> <<>>,
           activation |-> <<>>, attached |-> <<>>, firstOrder |-> <<>>,
           canon |-> {}]

NoPre == [callerArgs |-> <<>>, hist |-> NoHist,
          listeners |-> <<>>, actors |-> <<>>, _eventName |-> Undefined]

\* a sequence without the elements equal to x
RECURSIVE Without(_, _)
Without(seq, x) ==
    IF seq = <<>> THEN <<>>
    ELSE IF Head(seq) = x THEN Without(Tail(seq), x)
         ELSE <<Head(seq)>> \o Without(Tail(seq), x)

InSeq(seq, x) == \E i \in 1..Len(seq) : seq[i] = x

\* hist after a listen that registered key: the key is activated last; its
\* first registration keeps its place; restoredNow says that the call
\* directly follows unlisten of the same key
HistListen(h, key, restoredNow) ==
    [h EXCEPT !.unlistened = h.unlistened \ {key},
              !.byActor = h.byActor \ {key},
              !.activation = Append(h.activation, key),
              !.firstOrder = IF InSeq(h.firstOrder, key) THEN h.firstOrder
                             ELSE Append(h.firstOrder, key),
              !.restored = IF restoredNow THEN key ELSE <<>>]

\* hist after unlisten of key, made by "app" or by "actor"
HistUnlisten(h, key, by) ==
    [h EXCEPT !.unlistened = h.unlistened \cup {key},
              !.byActor = IF by = "actor" THEN h.byActor \cup {key}
                          ELSE h.byActor \ {key},
              !.activation = Without(h.activation, key),
              !.restored = <<>>]

HistAct(h, key, fn) ==
    [h EXCEPT !.attached = [k \in DOMAIN h.attached \cup {key} |->
                              IF k = key THEN Append(ActorsIn(h.attached, key), fn)
                              ELSE h.attached[k]],
              !.restored = <<>>]

\* hist.canon: the set of pattern specifications with a listen call in effect,
\* a specification standing for its canonical text (the wildcard string, or
\* the source of the regular expression): listen(eventName) adds one,
\* unlisten(eventName) takes away the equal ones and no other
HistCanonListen(h, eventName) ==
    [h EXCEPT !.canon = h.canon \cup {eventName}]

HistCanonUnlisten(h, eventName) ==
    [h EXCEPT !.canon = h.canon \ {eventName}]

\* probe, when it follows the chains of calls the application writes:
\* listen(p) starts a chain on the actors of that moment (base), every
\* act(fn) that follows lengthens it, any other call of the application
\* ends it; a publish keeps the chain it ended (published) to compare the
\* invocations with
ChainListen(pr, eventName, acts) ==
    IF pr.at # "chain" THEN pr
    ELSE [pr EXCEPT !.chain = [p |-> eventName, fns |-> <<>>, base |-> acts],
                    !.published = NoChain]

ChainAct(pr, fn) ==
    IF pr.at # "chain" \/ pr.chain = NoChain THEN pr
    ELSE [pr EXCEPT !.chain.fns = Append(pr.chain.fns, fn)]

ChainEnd(pr) ==
    IF pr.at # "chain" THEN pr
    ELSE [pr EXCEPT !.chain = NoChain, !.published = NoChain]

ChainPublish(pr) ==
    IF pr.at # "chain" THEN pr
    ELSE [pr EXCEPT !.chain = NoChain, !.published = pr.chain]

InitAM ==
    /\ listeners = <<>>
    /\ actors = <<>>
    /\ _eventName = Undefined
    /\ deepFlatten \in BOOLEAN
    /\ stack = <<>>
    /\ phase = "idle"
    /\ log = <<>>
    /\ emitted = <<>>
    /\ lastCall = NoCall
    /\ pre = NoPre
    /\ hist = NoHist

\* the application is between two calls of the mediator
Idle == stack = <<>> /\ phase = "idle"

\* PublicInterface.listen(eventName), called by the application
Listen(eventName) ==
    /\ Idle
    /\ Len(listeners) < MaxListeners
    /\ IF compileThrows(eventName)
       THEN /\ lastCall' = Call("listen", eventName, TRUE)
            /\ probe' = ChainEnd(probe)
            /\ UNCHANGED <<listeners, _eventName, hist>>
       ELSE /\ listeners' = addListener(listeners, eventName)
            /\ _eventName' = compiled(eventName)
            /\ lastCall' = Call("listen", eventName, FALSE)
            /\ hist' = HistCanonListen(
                          HistListen(hist, KeyOf(compiled(eventName)),
                                     /\ lastCall.op = "unlisten"
                                     /\ ~lastCall.threw
                                     /\ KeyOf(compiled(lastCall.arg))
                                          = KeyOf(compiled(eventName))),
                          eventName)
            /\ probe' = ChainListen(probe, eventName, actors)
    /\ UNCHANGED <<actors, stack, phase, log, emitted, pre>>
    /\ UNCHANGED <<deepFlatten, lsVars>>

\* PublicInterface.unlisten(eventName), called by the application
Unlisten(eventName) ==
    /\ Idle
    /\ IF compileThrows(eventName)
       THEN /\ lastCall' = Call("unlisten", eventName, TRUE)
            /\ UNCHANGED <<listeners, hist>>
       ELSE /\ listeners' = removeListener(listeners, eventName)
            /\ lastCall' = Call("unlisten", eventName, FALSE)
            /\ hist' = HistCanonUnlisten(
                          HistUnlisten(hist, KeyOf(compiled(eventName)), "app"),
                          eventName)
    /\ probe' = ChainEnd(probe)
    /\ UNCHANGED <<actors, _eventName, stack, phase, log, emitted, pre>>
    /\ UNCHANGED <<deepFlatten, lsVars>>

\* an actor that publishes NestedName must not be reached by NestedName,
\* or the publish would never return (the caller's duty, say the docs)
Attachable(fn) ==
    fn = "n" =>
        ~(_eventName.ctor = "RegExp" /\ Matches(_eventName.re, NestedName))

\* PublicInterface.act(fn), called by the application
Act(fn) ==
    /\ Idle
    /\ TotalActs(actors) < MaxActs
    /\ Attachable(fn)
    /\ actors' = addActor(actors, _eventName, fn)
    /\ lastCall' = Call("act", Undefined, FALSE)
    /\ hist' = HistAct(hist, KeyOf(_eventName), fn)
    /\ probe' = ChainAct(probe, fn)
    /\ UNCHANGED <<listeners, _eventName, stack, phase, log, emitted, pre>>
    /\ UNCHANGED <<deepFlatten, lsVars>>

\* the activation record of one callRegexes call: (li, ai) is the place of
\* the last actor invoked, snap the listeners array _.each iterates, asnap
\* the actors array the inner _.each iterates; dead: the keys unlistened
\* when the call started
Frame(fid, callerArgs) ==
    [fid |-> fid,
     callerArgs |-> callerArgs,
     args |-> flattenArguments(deepFlatten, callerArgs),
     snap |-> listeners,
     li |-> 0, ai |-> 0, asnap |-> <<>>,
     dead |-> hist.unlistened]

\* var name = args[0]
NameOf(fr) == fr.args[1].s

\* the first listener at or after position from that matches the name and
\* has actors, or 0
RECURSIVE NextListener(_, _, _)
NextListener(fr, acts, from) ==
    IF from > Len(fr.snap) THEN 0
    ELSE IF /\ Matches(fr.snap[from], NameOf(fr))
            /\ ActorsIn(acts, RegexToString(fr.snap[from])) # <<>>
         THEN from
         ELSE NextListener(fr, acts, from + 1)

\* the two nested _.each loops of callRegexes: the frame moved to the next
\* actor to invoke; li = 0 when the loops are over
Advance(fr, acts) ==
    IF fr.li >= 1 /\ fr.ai < Len(fr.asnap)
    THEN [fr EXCEPT !.ai = fr.ai + 1]
    ELSE LET j == NextListener(fr, acts, fr.li + 1)
         IN IF j = 0 THEN [fr EXCEPT !.li = 0]
            ELSE [fr EXCEPT !.li = j, !.ai = 1,
                            !.asnap = ActorsIn(acts, RegexToString(fr.snap[j]))]

\* a publish that registers the published name first, as the patched
\* methods of lsMediator do
PublishListening(name, payload) ==
    /\ Idle
    /\ listeners' = Append(listeners, toRegExp(Str(name)).re)
    /\ _eventName' = toRegExp(Str(name))
    /\ stack' = <<Frame(0, <<Str(name)>> \o payload)>>
    /\ phase' = "dispatching"
    /\ log' = <<>>
    /\ emitted' = <<>>
    /\ pre' = [callerArgs |-> <<Str(name)>> \o payload, hist |-> hist,
                listeners |-> listeners, actors |-> actors,
                _eventName |-> _eventName]
    /\ lastCall' = Call("publish", Undefined, FALSE)
    /\ probe' = ChainPublish(probe)
    /\ UNCHANGED <<actors, hist>>
    /\ UNCHANGED <<deepFlatten, lsVars>>

\* $rootScope.$emit / $rootScope.$broadcast, called by the application
Publish(name, payload) ==
    /\ Idle
    /\ stack' = <<Frame(0, <<Str(name)>> \o payload)>>
    /\ phase' = "dispatching"
    /\ log' = <<>>
    /\ emitted' = <<>>
    /\ pre' = [callerArgs |-> <<Str(name)>> \o payload, hist |-> hist,
                listeners |-> listeners, actors |-> actors,
                _eventName |-> _eventName]
    /\ lastCall' = Call("publish", Undefined, FALSE)
    /\ probe' = ChainPublish(probe)
    /\ UNCHANGED <<listeners, actors, _eventName, hist>>
    /\ UNCHANGED <<deepFlatten, lsVars>>

Top == stack[Len(stack)]

\* the record of one actor.apply(actor, args)
Entry(fr) ==
    [fid |-> fr.fid, li |-> fr.li, ai |-> fr.ai,
     key |-> RegexToString(fr.snap[fr.li]),
     fn |-> fr.asnap[fr.ai],
     args |-> fr.args,
     sent |-> fr.callerArgs,
     dead |-> RegexToString(fr.snap[fr.li]) \in fr.dead]

\* actor.apply(actor, args) for the next actor of the innermost callRegexes
Invoke ==
    /\ stack # <<>>
    /\ LET fr == Advance(Top, actors)
           fn == fr.asnap[fr.ai]
           rest == SubSeq(stack, 1, Len(stack) - 1)
       IN /\ fr.li # 0
          /\ log' = Append(log, Entry(fr))
          /\ \/ /\ fn = "f"
                /\ stack' = Append(rest, fr)
                /\ UNCHANGED <<listeners, hist, phase, lastCall>>
             \/ /\ fn = "t"
                \* nothing catches: every activation is abandoned
                /\ stack' = <<>>
                /\ phase' = "threw"
                /\ UNCHANGED <<listeners, hist, lastCall>>
             \/ /\ fn = "u"
                /\ listeners' = removeListener(listeners, UnlistenTarget)
                /\ hist' = HistCanonUnlisten(
                              HistUnlisten(hist, KeyOf(compiled(UnlistenTarget)),
                                           "actor"),
                              UnlistenTarget)
                /\ stack' = Append(rest, fr)
                /\ UNCHANGED <<phase, lastCall>>
             \/ /\ fn = "n"
                /\ stack' = Append(rest, fr)
                             \o <<Frame(Len(log) + 1, <<Str(NestedName)>> \o NestedPayload)>>
                /\ UNCHANGED <<listeners, hist, phase, lastCall>>
    /\ UNCHANGED <<actors, _eventName, emitted, pre>>
    /\ UNCHANGED <<deepFlatten, lsVars, probe>>

\* actor.apply(actor, args) for an actor "a", which calls Mediator.act(fn)
\* with a callback "f" of its own: addActor(_eventName, fn) while
\* callRegexes is iterating
InvokeAct ==
    /\ stack # <<>>
    /\ TotalActs(actors) < MaxActs
    /\ LET fr == Advance(Top, actors)
           rest == SubSeq(stack, 1, Len(stack) - 1)
       IN /\ fr.li # 0
          /\ fr.asnap[fr.ai] = "a"
          /\ log' = Append(log, Entry(fr))
          /\ stack' = Append(rest, fr)
    /\ actors' = addActor(actors, _eventName, "f")
    /\ hist' = HistAct(hist, KeyOf(_eventName), "f")
    /\ UNCHANGED <<listeners, _eventName, phase, emitted, lastCall, pre>>
    /\ UNCHANGED <<deepFlatten, lsVars, probe>>

\* callRegexes returns: return $emit.apply(this, arguments)
Return ==
    /\ stack # <<>>
    /\ Advance(Top, actors).li = 0
    /\ emitted' = Append(emitted, Top.callerArgs)
    /\ stack' = SubSeq(stack, 1, Len(stack) - 1)
    /\ phase' = IF Len(stack) = 1 THEN "returned" ELSE phase
    /\ UNCHANGED <<listeners, actors, _eventName, log, lastCall, pre, hist>>
    /\ UNCHANGED <<deepFlatten, lsVars, probe>>

\* the caller goes on after $emit/$broadcast returned or threw
Resume ==
    /\ stack = <<>>
    /\ phase \in {"returned", "threw"}
    /\ phase' = "idle"
    /\ log' = <<>>
    /\ emitted' = <<>>
    /\ pre' = NoPre
    /\ UNCHANGED <<listeners, actors, _eventName, stack, lastCall, hist>>
    /\ UNCHANGED <<deepFlatten, lsVars, probe>>

(***************************************************************************)
(* lsMediator, src/scripts/mediator.js.                                    *)
(***************************************************************************)
\* the property names the model uses on listeners and actors
LsKeys ==
    {KeyOf(p) : p \in LsPatternSpecs \cup LsWildPatternSpecs \cup {RA}}
        \cup Names \cup LsWildNames \cup {KeyOf(Undefined)}

\* watchPattern.replace(/\//g, '')
StripSlashes(s) == ReplaceAll(s, <<"/">>, <<>>)

\* wildcardMatch(eventName, watchPattern)
wildcardMatch(eventName, watchPattern) ==
    IF watchPattern # <<>> /\ watchPattern[1] = "/"
    THEN RegexMatch([src |-> StripSlashes(watchPattern), flags |-> <<>>],
                    eventName)
    ELSE IF ~InSeq(watchPattern, "*") THEN FALSE
    ELSE IF HasTripleStar(watchPattern) THEN FALSE
    ELSE RegexMatch([src |-> <<"^">> \o WildcardSource(watchPattern),
                     flags |-> <<>>], eventName)

\* wildcardMatch, tabulated for the names and keys of the model
WildcardTable ==
    [name \in Names \cup LsWildNames, key \in LsKeys |->
        wildcardMatch(name, key)]

\* actors is a sequence of [key, fns], in the order the keys were created
\* (the order in which for..in visits them); actors[key]:
LsActorsOf(acts, key) ==
    IF \E i \in DOMAIN acts : acts[i].key = key
    THEN acts[CHOOSE i \in DOMAIN acts : acts[i].key = key].fns
    ELSE <<>>

LsTotalActs(acts) ==
    LET RECURSIVE Sum(_)
        Sum(i) == IF i = 0 THEN 0 ELSE Len(acts[i].fns) + Sum(i - 1)
    IN Sum(Len(acts))

\* getAllActorsForEvent(eventName)
RECURSIVE WildcardActors(_, _)
WildcardActors(acts, eventName) ==
    IF acts = <<>> THEN <<>>
    ELSE (IF WildcardTable[eventName, Head(acts).key]
          THEN Head(acts).fns ELSE <<>>)
         \o WildcardActors(Tail(acts), eventName)

getAllActorsForEvent(acts, eventName) ==
    LsActorsOf(acts, eventName) \o WildcardActors(acts, eventName)

\* where each function of getAllActorsForEvent(eventName) comes from: the
\* key of its actor list and its place in that list
LsOriginsOf(key, fns) == [i \in DOMAIN fns |-> [key |-> key, idx |-> i]]

RECURSIVE WildcardOrigins(_, _)
WildcardOrigins(acts, eventName) ==
    IF acts = <<>> THEN <<>>
    ELSE (IF WildcardTable[eventName, Head(acts).key]
          THEN LsOriginsOf(Head(acts).key, Head(acts).fns) ELSE <<>>)
         \o WildcardOrigins(Tail(acts), eventName)

LsOrigins(acts, eventName) ==
    LsOriginsOf(eventName, LsActorsOf(acts, eventName))
        \o WildcardOrigins(acts, eventName)

\* listeners[key], undefined when the property is absent
LsListenerOf(ls, key) == IF key \in DOMAIN ls THEN ls[key] ELSE "undefined"

\* addListener(eventName): listeners after the call
lsAddListener(ls, eventName) ==
    LET key == KeyOf(eventName)
    IN IF LsListenerOf(ls, key) = "function" THEN ls
       ELSE [k \in DOMAIN ls \cup {key} |->
               IF k = key THEN "function" ELSE ls[k]]

\* $rootScope.$$listeners[key].length
LsHooksOf(hooks, key) == IF key \in DOMAIN hooks THEN hooks[key] ELSE 0

\* an addListener that registers eventCb again on every call
lsAddHookAgain(hooks, ls, eventName) ==
    LET key == KeyOf(eventName)
    IN [k \in DOMAIN hooks \cup {key} |->
          IF k = key THEN LsHooksOf(hooks, key) + 1 ELSE hooks[k]]

\* addListener(eventName): the host's listeners after the call;
\* $rootScope.$on(eventName, eventCb) adds a registration, unless
\* listeners[eventName] holds one already
lsAddHook(hooks, ls, eventName) ==
    LET key == KeyOf(eventName)
    IN IF LsListenerOf(ls, key) = "function" THEN hooks
       ELSE [k \in DOMAIN hooks \cup {key} |->
               IF k = key THEN LsHooksOf(hooks, key) + 1 ELSE hooks[k]]

\* removeListener(eventName): the host's listeners after reRegisterFunction(),
\* the de-register function that $on returned
lsRemoveHook(hooks, ls, eventName) ==
    [hooks EXCEPT ![KeyOf(eventName)] = @ - 1]

\* removeListener(eventName) throws: reRegisterFunction.toString() of an
\* undefined or null value
lsRemoveListenerThrows(ls, eventName) ==
    LsListenerOf(ls, KeyOf(eventName)) \in {"undefined", "null"}

\* removeListener(eventName): listeners after the call
lsRemoveListener(ls, eventName) ==
    [ls EXCEPT ![KeyOf(eventName)] = "null"]

\* addActor(eventName, fn): actors after the call
lsAddActor(acts, eventName, fn) ==
    LET key == KeyOf(eventName)
    IN IF \E i \in DOMAIN acts : acts[i].key = key
       THEN [i \in DOMAIN acts |->
               IF acts[i].key = key
               THEN [acts[i] EXCEPT !.fns = Append(acts[i].fns, fn)]
               ELSE acts[i]]
       ELSE Append(acts, [key |-> key, fns |-> <<fn>>])

\* lsHist: what it records depends on what the run observes (at): the
\* calls of the application ("calls"), the calls of the host's methods
\* ("host"), or nothing ("off").  listened, the pattern of the last listen
\* call of the application; unlistened, the keys the application
\* unlistened and has not listened since; threw, whether the last call
\* threw; publishing, the name of the publish in progress; prev, the name
\* and the number of actor invocations of the publish before, when no
\* listen, act or unlisten came after it; called and native, the call the
\* application made on a scope of the host and the call of the native
\* method the mediator made for it
NoPrev == [name |-> <<>>, count |-> 0]
NoHostCall == [method |-> "none", scope |-> "none", args |-> <<>>]
HostCall(method, scope, args) ==
    [method |-> method, scope |-> scope, args |-> args]

NoLsHist == [at |-> "off",
             listened |-> Undefined, unlistened |-> {}, threw |-> FALSE,
             publishing |-> <<>>, prev |-> NoPrev,
             called |-> NoHostCall, native |-> NoHostCall]

LsHistListen(h, eventName) ==
    IF h.at # "calls" THEN h
    ELSE [h EXCEPT !.listened = eventName,
                   !.unlistened = h.unlistened \ {KeyOf(eventName)},
                   !.threw = FALSE, !.prev = NoPrev]

LsHistUnlisten(h, eventName, threw) ==
    IF h.at # "calls" THEN h
    ELSE [h EXCEPT !.unlistened = IF threw THEN h.unlistened
                                  ELSE h.unlistened \cup {KeyOf(eventName)},
                   !.threw = threw, !.prev = NoPrev]

LsHistAct(h) ==
    IF h.at # "calls" THEN h
    ELSE [h EXCEPT !.threw = FALSE, !.prev = NoPrev]

LsHistPublish(h, name, called, native) ==
    CASE h.at = "calls" -> [h EXCEPT !.threw = FALSE, !.publishing = name]
      [] h.at = "host" -> [h EXCEPT !.called = called, !.native = native]
      [] OTHER -> h

LsHistResume(h, count) ==
    CASE h.at = "calls" ->
            [h EXCEPT !.publishing = <<>>,
                      !.prev = [name |-> h.publishing, count |-> count]]
      [] h.at = "host" ->
            [h EXCEPT !.called = NoHostCall, !.native = NoHostCall]
      [] OTHER -> h

InitLSAt(at) ==
    /\ lsListeners = <<>>
    /\ lsActors = <<>>
    /\ lsHooks = <<>>
    /\ ls_eventName = Undefined
    /\ ls_event = Undefined
    /\ ls_payload = Undefined
    /\ lsStack = <<>>
    /\ lsPhase = "idle"
    /\ lsLog = <<>>
    /\ lsHist = [NoLsHist EXCEPT !.at = at]

InitLS == InitLSAt("off")

LsIdle == lsStack = <<>> /\ lsPhase = "idle"

\* PublicInterface.listen(eventName), called by the application
LsListen(eventName) ==
    /\ LsIdle
    /\ ls_eventName' = eventName
    /\ lsListeners' = lsAddListener(lsListeners, eventName)
    /\ lsHooks' = lsAddHook(lsHooks, lsListeners, eventName)
    /\ lsHist' = LsHistListen(lsHist, eventName)
    /\ UNCHANGED <<lsActors, ls_event, ls_payload, lsStack, lsPhase, lsLog>>
    /\ UNCHANGED <<amVars, probe>>

\* PublicInterface.unlisten(eventName), called by the application
LsUnlisten(eventName) ==
    /\ LsIdle
    /\ IF lsRemoveListenerThrows(lsListeners, eventName)
       THEN UNCHANGED <<lsListeners, lsHooks>>
       ELSE /\ lsListeners' = lsRemoveListener(lsListeners, eventName)
            /\ lsHooks' = lsRemoveHook(lsHooks, lsListeners, eventName)
    /\ lsHist' = LsHistUnlisten(lsHist, eventName,
                                lsRemoveListenerThrows(lsListeners, eventName))
    /\ UNCHANGED <<lsActors, ls_eventName, ls_event, ls_payload, lsStack,
                   lsPhase, lsLog>>
    /\ UNCHANGED <<amVars, probe>>

\* an actor that publishes NestedName must not be reached by NestedName
LsAttachable(fn) ==
    fn = "n" =>
        /\ KeyOf(ls_eventName) # NestedName
        /\ ~WildcardTable[NestedName, KeyOf(ls_eventName)]

\* PublicInterface.act(fn), called by the application
LsAct(fn) ==
    /\ LsIdle
    /\ LsTotalActs(lsActors) < MaxActs
    /\ LsAttachable(fn)
    /\ lsActors' = lsAddActor(lsActors, ls_eventName, fn)
    /\ lsHist' = LsHistAct(lsHist)
    /\ UNCHANGED <<lsListeners, lsHooks, ls_eventName, ls_event, ls_payload, lsStack,
                   lsPhase, lsLog>>
    /\ UNCHANGED <<amVars, probe>>

\* the event object the native $emit/$broadcast creates for a publish
Event(name, serial) == [ctor |-> "Event", name |-> name, serial |-> serial]

\* the activation of eventCb for one publish: the event and payload it was
\* called with, the array callActors iterates (and where its functions
\* come from), the place of the last call; left: how many registrations of
\* eventCb the native publish has still to call after this one
LsFrame(event, payload, left) ==
    [event |-> event, payload |-> payload,
     fns |-> getAllActorsForEvent(lsActors, event.name),
     origins |-> LsOrigins(lsActors, event.name), i |-> 0,
     left |-> left]

\* the patched $emit/$broadcast up to the first call of an actor:
\* PublicInterface.listen(name), then the native publish, which calls
\* eventCb(event, payload) through the handler registered for name
LsEnter(name, payload, serial, stk) ==
    /\ ls_eventName' = Str(name)
    /\ lsListeners' = lsAddListener(lsListeners, Str(name))
    /\ lsHooks' = lsAddHook(lsHooks, lsListeners, Str(name))
    /\ ls_event' = Event(name, serial)
    /\ ls_payload' = payload
    /\ lsStack' = Append(stk, LsFrame(Event(name, serial), payload,
                                      LsHooksOf(lsHooks', name) - 1))

\* function(name, args) called with the arguments callerArgs after the
\* name: args is the first of them, undefined when there is none
FirstArg(callerArgs) ==
    IF callerArgs = <<>> THEN Undefined ELSE callerArgs[1]

\* the native call of the patched method: $emit.call(this, name, args),
\* $broadcast.call($rootScope, name, args)
NativeCall(method, scope, callerArgs) ==
    HostCall(method,
             IF method = "$emit" THEN scope ELSE "$rootScope",
             <<FirstArg(callerArgs)>>)

\* scope.$emit(name, ...callerArgs) / scope.$broadcast(name, ...callerArgs),
\* called by the application on $rootScope or on a scope that inherits the
\* patched methods from it; the native publish reaches the handler that
\* listen(name) registered on $rootScope
LsPublishOn(method, scope, name, callerArgs) ==
    /\ LsIdle
    /\ LsEnter(name, FirstArg(callerArgs), 0, <<>>)
    /\ lsPhase' = "dispatching"
    /\ lsLog' = <<>>
    /\ lsHist' = LsHistPublish(lsHist, name,
                               HostCall(method, scope, callerArgs),
                               NativeCall(method, scope, callerArgs))
    /\ UNCHANGED lsActors
    /\ UNCHANGED <<amVars, probe>>

\* $rootScope.$emit(name, payload), called by the application
LsPublish(name, payload) == LsPublishOn("$emit", "$rootScope", name, <<payload>>)

LsTop == lsStack[Len(lsStack)]

\* callActors: fnOrArray(_event, _payload) for the next function of the
\* innermost eventCb
LsInvoke ==
    /\ lsStack # <<>>
    /\ LsTop.i < Len(LsTop.fns)
    /\ LET fr == [LsTop EXCEPT !.i = LsTop.i + 1]
           fn == fr.fns[fr.i]
           rest == SubSeq(lsStack, 1, Len(lsStack) - 1)
       IN /\ lsLog' = Append(lsLog, [fn |-> fn,
                                     key |-> fr.origins[fr.i].key,
                                     idx |-> fr.origins[fr.i].idx,
                                     top |-> Len(lsStack) = 1,
                                     event |-> ls_event,
                                     payload |-> ls_payload,
                                     publishedEvent |-> fr.event,
                                     publishedPayload |-> fr.payload])
          /\ \/ /\ fn = "f"
                /\ lsStack' = Append(rest, fr)
                /\ UNCHANGED <<lsListeners, lsHooks, ls_eventName, ls_event,
                               ls_payload>>
             \/ /\ fn = "n"
                /\ LsEnter(NestedName, LsNestedPayload, Len(lsLog) + 1,
                           Append(rest, fr))
    /\ UNCHANGED <<lsActors, lsPhase, lsHist>>
    /\ UNCHANGED <<amVars, probe>>

\* callActors and eventCb return; the native publish calls eventCb again
\* when another registration of it is left, and returns when none is
LsReturn ==
    /\ lsStack # <<>>
    /\ LsTop.i = Len(LsTop.fns)
    /\ IF LsTop.left > 0
       THEN /\ lsStack' = Append(SubSeq(lsStack, 1, Len(lsStack) - 1),
                                 LsFrame(LsTop.event, LsTop.payload,
                                         LsTop.left - 1))
            /\ ls_event' = LsTop.event
            /\ ls_payload' = LsTop.payload
            /\ UNCHANGED lsPhase
       ELSE /\ lsStack' = SubSeq(lsStack, 1, Len(lsStack) - 1)
            /\ lsPhase' = IF Len(lsStack) = 1 THEN "returned" ELSE lsPhase
            /\ UNCHANGED <<ls_event, ls_payload>>
    /\ UNCHANGED <<lsListeners, lsActors, lsHooks, ls_eventName, lsLog, lsHist>>
    /\ UNCHANGED <<amVars, probe>>

\* the caller goes on after $emit/$broadcast returned
LsResume ==
    /\ lsStack = <<>>
    /\ lsPhase = "returned"
    /\ lsPhase' = "idle"
    /\ lsLog' = <<>>
    /\ lsHist' = LsHistResume(lsHist, Len(lsLog))
    /\ UNCHANGED <<lsListeners, lsActors, lsHooks, ls_eventName, ls_event,
                   ls_payload, lsStack>>
    /\ UNCHANGED <<amVars, probe>>

\* no pattern is being matched on its own
NoProbe == [at |-> "none"]

Init == InitAM /\ InitLS /\ probe = NoProbe

(***************************************************************************)
(* One pattern, one name: listen(eventName) on a new angularMediator, then *)
(* a publish of name, reduced to the two steps that decide whether the     *)
(* actors of the pattern are called.                                       *)
(***************************************************************************)
InitProbe ==
    /\ InitAM
    /\ deepFlatten = TRUE
    /\ InitLS
    /\ \E eventName \in ProbePatterns, name \in ProbeNames :
          probe = [at |-> "new", eventName |-> eventName, name |-> name]

\* addListener(eventName): the conversion of a string by regexify, which
\* may throw, and the push of the RegExp on listeners
ProbeListen ==
    /\ probe.at = "new"
    /\ probe' = IF toRegExpThrows(probe.eventName)
                THEN [probe EXCEPT !.at = "threw"]
                ELSE [at |-> "listened", eventName |-> probe.eventName,
                      name |-> probe.name,
                      listener |-> toRegExp(probe.eventName)]
    /\ UNCHANGED <<amVars, lsVars>>

\* callRegexes: if (name.match(listener)) for the listener pushed
ProbeMatch ==
    /\ probe.at = "listened"
    /\ probe' = [at |-> "matched", eventName |-> probe.eventName,
                 name |-> probe.name, listener |-> probe.listener,
                 isMatch |-> RegexMatch(probe.listener.re, probe.name)]
    /\ UNCHANGED <<amVars, lsVars>>

NextProbe == ProbeListen \/ ProbeMatch

SpecProbe == InitProbe /\ [][NextProbe]_vars

Next ==
    \/ \E p \in PatternSpecs : Listen(p)
    \/ \E p \in PatternSpecs : Unlisten(p)
    \/ \E fn \in ActorFns : Act(fn)
    \/ \E name \in Names, payload \in PayloadLists : Publish(name, payload)
    \/ Invoke
    \/ Return
    \/ Resume

Spec == Init /\ [][Next]_vars

NextLs ==
    \/ \E p \in LsPatternSpecs : LsListen(p)
    \/ \E p \in LsPatternSpecs : LsUnlisten(p)
    \/ \E fn \in LsActorFns : LsAct(fn)
    \/ \E name \in Names, payload \in LsPayloads : LsPublish(name, payload)
    \/ LsInvoke
    \/ LsReturn
    \/ LsResume

SpecLs == Init /\ [][NextLs]_vars

\* lsMediator with the calls of the application followed
LsCallPatternSpecs == {Str(E1), P1, RA}

InitLsCalls == InitAM /\ InitLSAt("calls") /\ probe = NoProbe

NextLsCalls ==
    \/ \E p \in LsCallPatternSpecs : LsListen(p)
    \/ \E p \in LsCallPatternSpecs : LsUnlisten(p)
    \/ \E fn \in LsActorFns : LsAct(fn)
    \/ \E name \in Names : LsPublish(name, Str(<<"P">>))
    \/ LsInvoke
    \/ LsReturn
    \/ LsResume

SpecLsCalls == InitLsCalls /\ [][NextLsCalls]_vars

\* lsMediator given patterns and event names with '*' and '/' in them
NextLsWild ==
    \/ \E p \in LsWildPatternSpecs : LsListen(p)
    \/ \E p \in LsWildPatternSpecs : LsUnlisten(p)
    \/ LsAct("f")
    \/ \E name \in LsWildNames : LsPublish(name, Str(<<"P">>))
    \/ LsInvoke
    \/ LsReturn
    \/ LsResume

SpecLsWild == Init /\ [][NextLsWild]_vars

\* lsMediator called through the scopes of the host
InitLsHost == InitAM /\ InitLSAt("host") /\ probe = NoProbe

NextLsHost ==
    \/ \E p \in LsCallPatternSpecs : LsListen(p)
    \/ \E p \in LsCallPatternSpecs : LsUnlisten(p)
    \/ LsAct("f")
    \/ \E method \in HostMethods, scope \in HostScopes, name \in Names,
          callerArgs \in HostArgLists :
            LsPublishOn(method, scope, name, callerArgs)
    \/ LsInvoke
    \/ LsReturn
    \/ LsResume

SpecLsHost == InitLsHost /\ [][NextLsHost]_vars

\* angularMediator given a wildcard string and a regular expression
NextRx ==
    \/ \E p \in RxPatternSpecs : Listen(p)
    \/ \E p \in RxPatternSpecs : Unlisten(p)
    \/ \E fn \in ActorFns : Act(fn)
    \/ \E name \in Names, payload \in PayloadLists : Publish(name, payload)
    \/ Invoke
    \/ Return
    \/ Resume

SpecRx == Init /\ [][NextRx]_vars

\* angularMediator with actors that change the registry while a publish is
\* dispatching: "a" attaches an actor, "u" unlistens
DynPatternSpecs == {P1, P2}
DynFns == {"f", "a", "u"}

NextDyn ==
    \/ \E p \in DynPatternSpecs : Listen(p)
    \/ \E p \in DynPatternSpecs : Unlisten(p)
    \/ \E fn \in DynFns : Act(fn)
    \/ \E name \in Names : Publish(name, <<>>)
    \/ Invoke
    \/ InvokeAct
    \/ Return
    \/ Resume

SpecDyn == Init /\ [][NextDyn]_vars

\* angularMediator with the chains of calls followed: listen(p).act(f1)...
\* written by the application, then a publish
ChainFns == {"f", "t"}

InitChain ==
    /\ InitAM
    /\ InitLS
    /\ probe = [at |-> "chain", chain |-> NoChain, published |-> NoChain]

NextChain ==
    \/ \E p \in PatternSpecs : Listen(p)
    \/ \E p \in PatternSpecs : Unlisten(p)
    \/ \E fn \in ChainFns : Act(fn)
    \/ \E name \in Names : Publish(name, <<>>)
    \/ Invoke
    \/ Return
    \/ Resume

SpecChain == InitChain /\ [][NextChain]_vars

(***************************************************************************)
(* The publish under observation, and what the calls made before it ask    *)
(* of it.                                                                  *)
(***************************************************************************)
\* the actor invocations made by the callRegexes call of the application
\* (those of nested publishes left out)
TopLog == SelectSeq(log, LAMBDA e : e.fid = 0)

\* the $emit/$broadcast call of the application has returned or thrown
Done == phase \in {"returned", "threw"}

PublishedName == pre.callerArgs[1].s

RegexOfKey(key) == CHOOSE re \in AllRegexes : RegexToString(re) = key

\* the patterns listened and not unlistened since, when the publish started,
\* whose matcher accepts the published name
ActiveMatching ==
    {k \in {pre.hist.activation[i] : i \in DOMAIN pre.hist.activation} :
        Matches(RegexOfKey(k), PublishedName)}

AttachedTo(k) == ActorsIn(pre.hist.attached, k)

\* the attachments <<pattern, place in its actor list>> the publish must serve
Expected ==
    UNION {{<<k, i>> : i \in 1..Len(AttachedTo(k))} : k \in ActiveMatching}

\* the attachments the publish has served
Invoked == {<<TopLog[i].key, TopLog[i].ai>> : i \in DOMAIN TopLog}

\* how many times the publish invoked the i-th actor of pattern k
TimesInvoked(k, i) ==
    Cardinality({j \in DOMAIN TopLog : TopLog[j].key = k /\ TopLog[j].ai = i})

\* the actors of pattern k the publish invoked, in order of invocation
InvokedOf(k) ==
    LET es == SelectSeq(TopLog, LAMBDA e : e.key = k)
    IN [j \in DOMAIN es |-> es[j].fn]

\* the place of x in seq
PosIn(seq, x) == CHOOSE i \in DOMAIN seq : seq[i] = x

\* the invocations due for the listen calls in effect, in the order of those
\* calls, each serving the actors of its pattern in attachment order
RECURSIVE ServeList(_, _, _)
ServeList(activation, attached, name) ==
    IF activation = <<>> THEN <<>>
    ELSE LET k == Head(activation)
             fns == ActorsIn(attached, k)
         IN (IF Matches(RegexOfKey(k), name)
             THEN [i \in DOMAIN fns |-> <<k, fns[i]>>]
             ELSE <<>>)
            \o ServeList(Tail(activation), attached, name)

IsPrefix(a, b) == Len(a) <= Len(b) /\ a = SubSeq(b, 1, Len(a))

Served == [i \in DOMAIN TopLog |-> <<TopLog[i].key, TopLog[i].fn>>]

(***************************************************************************)
(* The claims.                                                             *)
(***************************************************************************)
\* C1: when a publish of n is over, the actors it invoked are exactly the
\* actors attached to the patterns that were active when it started and
\* whose matcher accepts n: none of another pattern, none skipped.
C1_InvokedIffActiveAndMatching ==
    Done => Invoked = Expected

C3_UnlistenedNotInvoked ==
    \A i \in DOMAIN log : ~log[i].dead

\* C3 witness: an actor unlistened a pattern that has actors, and a later
\* publish of a name the pattern matches has returned.
C3_Witness ==
    /\ phase = "returned"
    /\ \E k \in pre.hist.byActor :
          /\ k \in pre.hist.unlistened
          /\ Matches(RegexOfKey(k), PublishedName)
          /\ ActorsIn(actors, k) # <<>>
    /\ TopLog # <<>>

\* C4: after unlisten(p) directly followed by listen(p) and no act since, a
\* publish that p matches invokes exactly the actors attached to p before,
\* each once and in their attachment order.
C4_RelistenRestoresActors ==
    (Done /\ pre.hist.restored # <<>>
          /\ Matches(RegexOfKey(pre.hist.restored), PublishedName))
        => InvokedOf(pre.hist.restored) = AttachedTo(pre.hist.restored)

\* C5: a listen call whose wildcard string holds three or more consecutive
\* '*' throws and changes neither the listeners, nor any actor list, nor the
\* value a following act attaches to.
C5_MalformedListenThrows ==
    [][\A p \in PatternSpecs :
          (Listen(p) /\ HasTripleStar(p.s))
              => (lastCall'.threw /\ UNCHANGED registry)]_vars

\* C5 witness: listen('***:b') has thrown in a registry that holds listeners
\* and actors.
C5_Witness ==
    /\ lastCall = Call("listen", PBad, TRUE)
    /\ listeners # <<>>
    /\ actors # <<>>
    /\ _eventName # Undefined

\* C6: when an actor has thrown during a publish, every other actor the
\* publish matches has been invoked in that publish all the same.
C6_ThrowDoesNotStopOthers ==
    phase = "threw" => Expected \subseteq Invoked

\* C7: a publish does not fail as a whole: no exception of an actor reaches
\* the caller of $emit/$broadcast, and the native $emit/$broadcast has been
\* performed for the event when the call is over.
C7_PublishNeverFails ==
    /\ phase # "threw"
    /\ Done => (emitted # <<>> /\ emitted[Len(emitted)] = pre.callerArgs)

\* C8: every actor invoked by publish(n, x) receives the arguments n and x
\* as they were given, arrays included.
C8_PayloadUnmodified ==
    \A i \in DOMAIN log : log[i].args = log[i].sent

C9_OwnEventAndPayload ==
    \A i \in DOMAIN lsLog :
        /\ lsLog[i].event = lsLog[i].publishedEvent
        /\ lsLog[i].payload = lsLog[i].publishedPayload

\* the listen calls in effect when the i-th invocation was made: those in
\* effect when the publish started, less the ones an actor has unlistened
ActivationAt(i) ==
    IF \E j \in 1..(i - 1) : log[j].fn = "u"
    THEN Without(pre.hist.activation, KeyOf(compiled(UnlistenTarget)))
    ELSE pre.hist.activation

\* the invocations made by the publish that the i-th invocation (of an
\* actor "n") started
NestedServed(i) ==
    LET es == SelectSeq(log, LAMBDA e : e.fid = i)
    IN [j \in DOMAIN es |-> <<es[j].key, es[j].fn>>]

\* C11: a publish made by an actor runs inside the call of that actor: its
\* invocations follow the actor's own invocation directly; and when the
\* outer publish is over, it has returned, every nested publish has invoked
\* all the actors due for its event, and the outer publish has invoked all
\* the actors due for its own.
C11_ReentrantDispatchCompletes ==
    /\ \A i \in DOMAIN log :
          log[i].fid # 0 =>
              /\ log[i].fid < i
              /\ log[log[i].fid].fn = "n"
              /\ \A j \in (log[i].fid + 1)..i : log[j].fid = log[i].fid
    /\ (Done /\ \E i \in DOMAIN log : log[i].fn = "n") =>
          /\ phase = "returned"
          /\ Served = ServeList(pre.hist.activation, pre.hist.attached,
                                PublishedName)
          /\ \A i \in DOMAIN log :
                log[i].fn = "n" =>
                    NestedServed(i) = ServeList(ActivationAt(i),
                                                pre.hist.attached, NestedName)

(***************************************************************************)
(* The wildcard syntax as the documentation states it: '**' stands for any *)
(* run of characters, '*' for a run of characters that are not separators, *)
(* every other character for itself; the pattern must match from the start *)
(* of the name and need not reach its end.                                 *)
(***************************************************************************)
RECURSIVE WildcardAccepts(_, _, _, _)
WildcardAccepts(p, i, n, j) ==
    IF i > Len(p) THEN TRUE
    ELSE IF OccursAt(p, <<"*", "*">>, i)
         THEN \E k \in j..(Len(n) + 1) : WildcardAccepts(p, i + 2, n, k)
    ELSE IF p[i] = "*"
         THEN \E k \in j..(Len(n) + 1) :
                 /\ \A m \in j..(k - 1) : n[m] \notin Separators
                 /\ WildcardAccepts(p, i + 1, n, k)
    ELSE /\ j <= Len(n)
         /\ n[j] = p[i]
         /\ WildcardAccepts(p, i + 1, n, j + 1)

WildcardMatches(p, n) == WildcardAccepts(p, 1, n, 1)

\* p is a prefix of n
IsPrefixOf(p, n) == Len(p) <= Len(n) /\ SubSeq(n, 1, Len(p)) = p

\* C12: a wildcard string whose stars are all single is accepted by listen,
\* and matches a name exactly when a prefix of the name is the pattern with
\* each '*' replaced by a run of zero or more characters none of which is
\* one of : / . ? _ & ;
C12_SingleStarStopsAtSeparators ==
    probe.at # "none" /\ probe.eventName \in StarPatterns =>
        /\ probe.at # "threw"
        /\ probe.at = "matched" =>
              probe.isMatch = WildcardMatches(probe.eventName.s, probe.name)

\* C13: a wildcard string with globstars is accepted by listen, and matches
\* a name exactly when a prefix of the name is the pattern with each '**',
\* the first and every later one, replaced by a run of zero or more
\* characters of any kind.
C13_EveryGlobstarCrossesSeparators ==
    probe.at # "none" /\ probe.eventName \in GlobstarPatterns =>
        /\ probe.at # "threw"
        /\ probe.at = "matched" =>
              probe.isMatch = WildcardMatches(probe.eventName.s, probe.name)

\* C14: for a wildcard string p without '*', whatever its characters,
\* listen(p) is accepted and a publish of the name p matches p, so that the
\* actors attached to p are called.
C14_LiteralPatternMatchesItself ==
    (/\ probe.at # "none"
     /\ probe.eventName \in LiteralPatterns
     /\ probe.name = probe.eventName.s) =>
        /\ probe.at # "threw"
        /\ probe.at = "matched" => probe.isMatch

\* C15: a wildcard string p without '*' is accepted by listen and matches a
\* name n exactly when p is a prefix of n.
C15_LiteralPatternIsPrefixMatch ==
    probe.at # "none" /\ probe.eventName \in LiteralPatterns =>
        /\ probe.at # "threw"
        /\ probe.at = "matched" =>
              probe.isMatch = IsPrefixOf(probe.eventName.s, probe.name)

\* what the regular expressions of RegExpPatterns say of a name, stated
\* without the matcher: /:a$/ the name ends with ':a', /a/ the name holds an
\* 'a', /^a/ the name starts with 'a'
RegExpMeaning(re, n) ==
    CASE re.src = <<":", "a", "$">> ->
            Len(n) >= 2 /\ SubSeq(n, Len(n) - 1, Len(n)) = <<":", "a">>
      [] re.src = <<"a">> -> InSeq(n, "a")
      [] re.src = <<"^", "a">> -> n # <<>> /\ n[1] = "a"

\* C16: a regular expression given to listen is accepted and pushed on the
\* listeners as it is, and a publish of a name calls its actors exactly
\* when the regular expression itself matches the name: nothing is
\* expanded and no anchor is added.
C16_RegExpUsedVerbatim ==
    probe.at # "none" /\ probe.eventName \in RegExpPatterns =>
        /\ probe.at # "threw"
        /\ probe.at \in {"listened", "matched"} =>
              probe.listener = probe.eventName
        /\ probe.at = "matched" =>
              /\ probe.isMatch = RegexMatch(probe.eventName.re, probe.name)
              /\ probe.isMatch = RegExpMeaning(probe.eventName.re, probe.name)

\* C16 witness: /a/ was listened and has matched the name ':a', which a
\* pattern anchored at the start does not match.
C16_Witness ==
    /\ probe.at = "matched"
    /\ probe.eventName = Rx([src |-> <<"a">>, flags |-> <<>>])
    /\ probe.name = <<":", "a">>
    /\ probe.isMatch

\* the pattern specification has a listener on the listeners array
IsRegistered(eventName) ==
    /\ ~compileThrows(eventName)
    /\ \E i \in DOMAIN listeners :
          RegexToString(listeners[i]) = KeyOf(compiled(eventName))

\* C17: unlisten(p) for a pattern specification that has no listener (never
\* listened, unlistened already, or one that listen refuses) returns without
\* throwing and changes neither the listeners, nor an actor list, nor the
\* value a following act attaches to.
C17_UnlistenUnregisteredIsNoOp ==
    [][\A p \in PatternSpecs :
          (Unlisten(p) /\ ~IsRegistered(p))
              => (~lastCall'.threw /\ UNCHANGED registry)]_vars

\* C18: the listeners never hold two entries for the same pattern: listen on
\* a pattern that is registered already adds no second entry.
C18_NoDuplicateEntries ==
    \A i, j \in DOMAIN listeners :
        i # j => RegexToString(listeners[i]) # RegexToString(listeners[j])

\* C19: the actor list of every pattern only grows: in every step each list
\* is a prefix of what it is afterwards; a step of act appends its function
\* to the list of the current pattern and changes no other list; every
\* other step (listen, unlisten, a step of a publish) leaves all lists as
\* they are.
C19_ActorListsOnlyGrow ==
    [][/\ \A k \in DOMAIN actors :
             k \in DOMAIN actors' /\ IsPrefix(actors[k], actors'[k])
       /\ \A fn \in ActorFns :
             Act(fn) =>
                 /\ actors'[KeyOf(_eventName)]
                      = Append(ActorsIn(actors, KeyOf(_eventName)), fn)
                 /\ \A k \in DOMAIN actors' \ {KeyOf(_eventName)} :
                       k \in DOMAIN actors /\ actors'[k] = actors[k]
       /\ (~ \E fn \in ActorFns : Act(fn)) => actors' = actors]_vars

\* C19 witness: a pattern with two actors has been unlistened and a publish
\* has returned since; the two actors are still attached.
C19_Witness ==
    /\ phase = "returned"
    /\ \E k \in DOMAIN actors :
          /\ Len(actors[k]) >= 2
          /\ k \in hist.unlistened
          /\ actors[k] = ActorsIn(hist.attached, k)

\* C20: the entries of the registry are told apart by the canonical text of
\* their pattern specifications: the active listeners are exactly the
\* compiled forms of the specifications with a listen call in effect, a
\* listen call being ended by unlisten of a specification with the same
\* canonical text and by no other (unlisten of one pattern never
\* deactivates a pattern with another canonical text).
C20_EntriesByCanonicalText ==
    {listeners[i] : i \in DOMAIN listeners}
        = {compiled(eventName).re : eventName \in hist.canon}

\* the actors after the chain listen(p).act(f1)...act(fk) written on the
\* actors base: f1..fk at the end of the entry of p, nothing else changed
ChainAttached(chain) ==
    LET k == KeyOf(compiled(chain.p))
    IN IF chain.fns = <<>> THEN chain.base
       ELSE [x \in DOMAIN chain.base \cup {k} |->
               IF x = k THEN ActorsIn(chain.base, k) \o chain.fns
               ELSE chain.base[x]]

\* C21: while the application writes a chain listen(p).act(f1)...act(fk),
\* f1..fk are, in that order, at the end of the entry of p and no other
\* entry has changed; and a publish that follows the chain and matches p
\* has, when it is over, invoked each of f1..fk exactly once.
C21_ChainAttachesAndServesOnce ==
    /\ (probe.at = "chain" /\ probe.chain # NoChain)
          => actors = ChainAttached(probe.chain)
    /\ (probe.at = "chain" /\ probe.published # NoChain /\ Done
          /\ Matches(compiled(probe.published.p).re, PublishedName))
          => LET k == KeyOf(compiled(probe.published.p))
                 n == Len(ActorsIn(probe.published.base, k))
             IN \A i \in 1..Len(probe.published.fns) :
                   TimesInvoked(k, n + i) = 1

\* the invocations the registry ls, acts owes to a publish of name: for
\* every listener in order that matches, its actors in order
RECURSIVE RegistryServeList(_, _, _)
RegistryServeList(ls, acts, name) ==
    IF ls = <<>> THEN <<>>
    ELSE LET k == RegexToString(Head(ls))
             fns == ActorsIn(acts, k)
         IN (IF Matches(Head(ls), name)
             THEN [i \in DOMAIN fns |-> <<k, fns[i]>>]
             ELSE <<>>)
            \o RegistryServeList(Tail(ls), acts, name)

\* C30: the actors a publish invokes, and their order, are those the
\* registry held when the publish started: at every moment of the dispatch
\* the invocations made are a beginning of that list, and when the publish
\* has returned they are the whole list, whatever listen, act or unlisten
\* the actors performed meanwhile.
C30_ServedFromRegistryAtStart ==
    pre.callerArgs # <<>> =>
        LET due == RegistryServeList(pre.listeners, pre.actors, PublishedName)
        IN /\ IsPrefix(Served, due)
           /\ phase = "returned" => Served = due

\* C22: when a publish of a name has returned and the publish before it was
\* of the same name, with no listen, act or unlisten of the application in
\* between, the two made the same number of actor invocations; and eventCb
\* is registered with the host at most once for any event name.
C22_RepeatedPublishSameCount ==
    /\ (lsHist.at = "calls" /\ lsPhase = "returned"
          /\ lsHist.prev.name = lsHist.publishing)
          => Len(lsLog) = lsHist.prev.count
    /\ \A k \in DOMAIN lsHooks : lsHooks[k] <= 1

\* a second publish in a row of a name that invokes two actors
C22_Witness ==
    /\ lsHist.at = "calls"
    /\ lsPhase = "returned"
    /\ lsHist.prev.name = lsHist.publishing
    /\ lsHist.prev.count = 2
    /\ Len(lsLog) = 2

\* C23: no publish invokes an actor through a pattern (an exact event name,
\* a wildcard string or a regular expression) that the application has
\* unlistened and not listened again since.
C23_UnlistenedNotInvoked ==
    lsHist.at = "calls" =>
        \A i \in DOMAIN lsLog : lsLog[i].key \notin lsHist.unlistened

\* C24: no publish, whatever the published name, invokes an actor attached
\* to a pattern that has three or more consecutive '*' characters.
C24_TripleStarNeverInvoked ==
    \A i \in DOMAIN lsLog : ~HasTripleStar(lsLog[i].key)

\* what the listeners of the host receive of a call: the arguments up to
\* the last one that is not undefined
RECURSIVE Received(_)
Received(args) ==
    IF args = <<>> THEN <<>>
    ELSE IF args[Len(args)] = Undefined
         THEN Received(SubSeq(args, 1, Len(args) - 1))
         ELSE args

\* C25: for every call of $emit or $broadcast on a scope, the native method
\* the mediator calls is the one the application called, on the scope the
\* application called it on, with all the arguments the application gave.
C25_NativeCallUnmodified ==
    (lsHist.at = "host" /\ lsHist.called # NoHostCall) =>
        /\ lsHist.native.method = lsHist.called.method
        /\ lsHist.native.scope = lsHist.called.scope
        /\ Received(lsHist.native.args) = Received(lsHist.called.args)

\* C26: a publish invokes an attached actor (the actor at one place of the
\* actor list of one key) at most once, whatever the published name.
C26_AtMostOncePerAttachment ==
    \A i, j \in DOMAIN lsLog :
        (/\ lsLog[i].publishedEvent = lsLog[j].publishedEvent
         /\ lsLog[i].key = lsLog[j].key
         /\ lsLog[i].idx = lsLog[j].idx) => i = j

\* C27: once the application has called listen, act attaches to the
\* pattern of its last listen call, whatever was published since: act(fn)
\* appends fn to the actors of that pattern and changes no other actor
\* list.
C27_ActAttachesToLastListen ==
    [][\A fn \in LsActorFns :
          (lsHist.at = "calls" /\ lsHist.listened # Undefined /\ LsAct(fn))
              => lsActors' = lsAddActor(lsActors, lsHist.listened, fn)]_vars

\* C28: unlisten(e) for an event name that holds no registration, because
\* it was never listened or was unlistened already, returns normally and
\* changes neither the listener table nor the actor table.
C28_UnlistenUnregisteredIsNoOp ==
    [][\A e \in LsCallPatternSpecs :
          (/\ lsHist.at = "calls"
           /\ LsListenerOf(lsListeners, KeyOf(e)) # "function"
           /\ LsUnlisten(e))
              => (~lsHist'.threw /\ UNCHANGED <<lsListeners, lsActors>>)]_vars

\* C29: when a publish has returned, the actors of a regular expression
\* given to listen were invoked by it if and only if the regular
\* expression matches the published name.
C29_RegExpOwnSemantics ==
    \A p \in LsWildPatternSpecs :
        (/\ p.ctor = "RegExp"
         /\ lsPhase = "returned"
         /\ LsActorsOf(lsActors, KeyOf(p)) # <<>>)
            => ((\E i \in DOMAIN lsLog : lsLog[i].key = KeyOf(p))
                   <=> RegexMatch(p.re, ls_event.name))

\* the actors the publish has invoked so far, nested publishes included,
\* made no registration call (none of them is "u" or "a")
NoRegistrationCall ==
    \A i \in DOMAIN log : log[i].fn \notin {"u", "a"}

\* C31: when a publish is over, returned or thrown, and none of the actors
\* it invoked made a registration call, the listeners, every actor list and
\* the pattern the next act attaches to are what they were when the publish
\* started, whether or not a pattern matched.
C31_PublishLeavesRegistry ==
    (Done /\ NoRegistrationCall) =>
        /\ listeners = pre.listeners
        /\ actors = pre.actors
        /\ _eventName = pre._eventName

\* a publish that invoked actors, none of which made a registration call,
\* is over
C31_Witness ==
    /\ Done
    /\ NoRegistrationCall
    /\ Len(log) >= 2
    /\ pre.listeners # <<>>

\* C32: act(fn) called before any listen, or directly after a listen that
\* threw, attaches fn to no entry registered earlier: the actor list of
\* every pattern that was ever listened stays as it was.
C32_ActWithoutEntryAttachesNowhere ==
    [][\A fn \in ActorFns :
          (/\ \/ _eventName = Undefined
              \/ lastCall.op = "listen" /\ lastCall.threw
           /\ Act(fn))
              => \A k \in {RegexToString(re) : re \in AllRegexes} :
                    ActorsIn(actors', k) = ActorsIn(actors, k)]_vars

====
